---- MODULE Spec2Model ----
(***************************************************************************)
(* Model of src/metrics.py: the Metrics class, which derives return        *)
(* series and scalar statistics from a price table held in self.data.      *)
(*                                                                         *)
(* A table is column-wise, as in the dataframe library: parallel sequences *)
(* of column names, dtypes and series.  A numeric cell is an exact         *)
(* rational [k |-> "num", n, d] in lowest terms or the null cell; a date   *)
(* cell is <<year, month, day>>.  Floating-point rounding is not modelled: *)
(* arithmetic is exact.  Close prices are strictly positive, so no column  *)
(* division has a zero denominator.                                        *)
(*                                                                         *)
(* A call of a method is one action.  The caller keeps the table returned  *)
(* by simple_returns in `returns` and the one returned by                  *)
(* cumulative_returns in `cumulative`, and passes them to the methods that *)
(* take a table; op, period, rf record the last call and its arguments,    *)
(* err the exception it raised ("none" when it returned), scalar the       *)
(* scalar it returned and groups the frame of the grouping it returned     *)
(* (NoScalar, NoTable when it returned none).                              *)
(***************************************************************************)
EXTENDS Integers, Sequences, FiniteSets, TLC

VARIABLES data, returns, cumulative, groups, op, period, rf, err, scalar

vars == <<data, returns, cumulative, groups, op, period, rf, err, scalar>>

\* ------------------------------------------------------------------ bounds
MaxLen == 3

\* close prices the price tables are built from (all > 0)
Prices == {100, 110, 121}

\* offsets into the calendar at which a price table may start
Starts == {1, 22}

\* ------------------------------------------------------- numeric cells
AbsInt(x) == IF x < 0 THEN -x ELSE x

RECURSIVE Gcd(_, _)
Gcd(a, b) == IF b = 0 THEN a ELSE Gcd(b, a % b)

Null == [k |-> "null", n |-> 0, d |-> 1]

Num(n, d) ==
    LET g == Gcd(AbsInt(n), AbsInt(d))
        s == IF d < 0 THEN -1 ELSE 1
    IN [k |-> "num", n |-> (s * n) \div g, d |-> (s * d) \div g]

IsNull(x) == x.k = "null"
IsNum(x) == x.k = "num"

One == Num(1, 1)
Zero == Num(0, 1)

\* column arithmetic: a null operand gives a null cell
Add(a, b) == IF IsNull(a) \/ IsNull(b) THEN Null ELSE Num(a.n * b.d + b.n * a.d, a.d * b.d)
Sub(a, b) == IF IsNull(a) \/ IsNull(b) THEN Null ELSE Num(a.n * b.d - b.n * a.d, a.d * b.d)
Mul(a, b) == IF IsNull(a) \/ IsNull(b) THEN Null ELSE Num(a.n * b.n, a.d * b.d)
Div(a, b) == IF IsNull(a) \/ IsNull(b) THEN Null ELSE Num(a.n * b.d, a.d * b.n)

Leq(a, b) == a.n * b.d <= b.n * a.d
Lt(a, b) == a.n * b.d < b.n * a.d

\* ------------------------------------------------------------- tables
Table(names, dtypes, series) == [names |-> names, dtypes |-> dtypes, series |-> series]

\* the value of a variable that holds no table
NoTable == Table(<<>>, <<>>, <<>>)

Range(s) == {s[i] : i \in 1..Len(s)}

HasColumn(t, name) == name \in Range(t.names)

ColIndex(t, name) == CHOOSE i \in 1..Len(t.names) : t.names[i] = name

Column(t, name) == t.series[ColIndex(t, name)]

Dtype(t, name) == t.dtypes[ColIndex(t, name)]

Height(t) == IF Len(t.series) = 0 THEN 0 ELSE Len(t.series[1])

\* DataFrame.select of existing columns, in the order asked for
Select(t, names) ==
    Table(names,
          [i \in 1..Len(names) |-> Dtype(t, names[i])],
          [i \in 1..Len(names) |-> Column(t, names[i])])

\* DataFrame.with_columns(other frame): the other frame's columns are appended
HStack(t, u) == Table(t.names \o u.names, t.dtypes \o u.dtypes, t.series \o u.series)

\* DataFrame.with_columns(expr.alias(name)) for a name the frame does not have yet
WithColumn(t, name, dtype, col) ==
    Table(Append(t.names, name), Append(t.dtypes, dtype), Append(t.series, col))

\* ---------------------------------------------------- column expressions
\* 1 + col and col - c, cell by cell
OnePlus(col) == [i \in 1..Len(col) |-> Add(One, col[i])]

Minus(col, c) == [i \in 1..Len(col) |-> Sub(col[i], c)]

\* Expr.shift(1): the first cell is null, cell i holds the former cell i-1
Shift1(col) == [i \in 1..Len(col) |-> IF i = 1 THEN Null ELSE col[i - 1]]

\* product / maximum / sum of the non-null cells among the first i
RECURSIVE ProdUpTo(_, _)
ProdUpTo(col, i) ==
    IF i = 0 THEN One
    ELSE IF IsNull(col[i]) THEN ProdUpTo(col, i - 1)
    ELSE Mul(ProdUpTo(col, i - 1), col[i])

RECURSIVE MaxUpTo(_, _)
MaxUpTo(col, i) ==
    IF i = 0 THEN Null
    ELSE LET m == MaxUpTo(col, i - 1)
         IN IF IsNull(col[i]) THEN m
            ELSE IF IsNull(m) THEN col[i]
            ELSE IF Leq(m, col[i]) THEN col[i] ELSE m

RECURSIVE SumUpTo(_, _)
SumUpTo(col, i) ==
    IF i = 0 THEN Zero
    ELSE IF IsNull(col[i]) THEN SumUpTo(col, i - 1)
    ELSE Add(SumUpTo(col, i - 1), col[i])

\* Expr.cum_prod(): a null cell stays null and does not enter the product
CumProd(col) == [i \in 1..Len(col) |-> IF IsNull(col[i]) THEN Null ELSE ProdUpTo(col, i)]

\* Expr.cum_max(): a null cell stays null and does not enter the maximum
CumMax(col) == [i \in 1..Len(col) |-> IF IsNull(col[i]) THEN Null ELSE MaxUpTo(col, i)]

\* Expr.max(): the largest non-null cell, null when there is none
ColMax(col) == MaxUpTo(col, Len(col))

\* Expr.product(): the product of the non-null cells
ColProduct(col) == ProdUpTo(col, Len(col))

\* Expr.sum(): the sum of the non-null cells
ColSum(col) == SumUpTo(col, Len(col))

\* Expr.filter(mask): the cells whose mask cell is true (a null mask cell is dropped)
RECURSIVE FilterLt(_, _, _)
FilterLt(col, by, bound) ==
    IF Len(col) = 0 THEN <<>>
    ELSE LET rest == FilterLt(Tail(col), Tail(by), bound)
         IN IF ~IsNull(Head(by)) /\ Lt(Head(by), bound) THEN <<Head(col)>> \o rest ELSE rest

NonNullCount(col) == Cardinality({i \in 1..Len(col) : ~IsNull(col[i])})

\* ---------------------------------------------------------- results
\* the value of `scalar` when the call returned no scalar
NoScalar == [k |-> "none", n |-> 0, d |-> 1]

ReturnT(t) == [err |-> "none", t |-> t]
RaiseT(e) == [err |-> e, t |-> NoTable]
ReturnS(x) == [err |-> "none", x |-> x]
RaiseS(e) == [err |-> e, x |-> NoScalar]

\* ------------------------------------------------------------ Metrics
AggregationType == {"day", "weekly", "monthly", "quarterly", "yearly"}

NumericColumns(t) == SelectSeq(t.names, LAMBDA c : Dtype(t, c) = "Float64")

DateColumn(t) == SelectSeq(t.names, LAMBDA c : Dtype(t, c) \in {"Date", "Datetime"})

\* annualization_faactor: a member of the enumeration never reaches the raise
AnnualizationFactor(convert_to) ==
    CASE convert_to = "day" -> ReturnS(Num(252, 1))
      [] convert_to = "weekly" -> ReturnS(Num(52, 1))
      [] convert_to = "monthly" -> ReturnS(Num(12, 1))
      [] convert_to = "quarterly" -> ReturnS(Num(4, 1))
      [] convert_to = "yearly" -> ReturnS(Num(1, 1))
      [] OTHER -> RaiseS("ValueError")

\* simple_returns with the "- 1" of the return expression dropped
SimpleReturnsRatio(d) ==
    LET numeric_df == Select(d, NumericColumns(d))
        close == Column(numeric_df, "close")
        prev == Shift1(close)
        ret == [i \in 1..Len(close) |-> Div(close[i], prev[i])]
    IN ReturnT(HStack(Select(d, <<"date">>), WithColumn(numeric_df, "return", "Float64", ret)))

SimpleReturns(d) ==
    LET numeric_df == Select(d, NumericColumns(d))
    IN IF ~HasColumn(numeric_df, "close") \/ ~HasColumn(d, "date")
       THEN RaiseT("ColumnNotFoundError")
       ELSE LET close == Column(numeric_df, "close")
                prev == Shift1(close)
                ret == [i \in 1..Len(close) |-> Sub(Div(close[i], prev[i]), One)]
                rets == WithColumn(numeric_df, "return", "Float64", ret)
            IN ReturnT(HStack(Select(d, <<"date">>), rets))

\* cumulative_returns with the "1 +" of the running product dropped
CumulativeReturnsOfReturn(simple_returns) ==
    ReturnT(WithColumn(Select(simple_returns, <<"date", "return">>),
                       "cumulative_return", "Float64",
                       CumProd(Column(simple_returns, "return"))))

CumulativeReturns(simple_returns) ==
    IF ~HasColumn(simple_returns, "date") \/ ~HasColumn(simple_returns, "return")
    THEN RaiseT("ColumnNotFoundError")
    ELSE LET ret == Column(simple_returns, "return")
             cum == CumProd(OnePlus(ret))
         IN ReturnT(WithColumn(Select(simple_returns, <<"date", "return">>),
                               "cumulative_return", "Float64", cum))

\* DataFrame.get_column(name)[0]
GetColumnFirst(t, name) ==
    IF ~HasColumn(t, name) THEN RaiseS("ColumnNotFoundError")
    ELSE IF Height(t) = 0 THEN RaiseS("IndexError")
    ELSE ReturnS(Column(t, name)[1])

CumulativeReturnFinal(cumulative_returns) ==
    IF ~HasColumn(cumulative_returns, "cumulative_return")
    THEN RaiseS("ColumnNotFoundError")
    ELSE LET cum == Column(cumulative_returns, "cumulative_return")
             prod == ColProduct(OnePlus(cum))
             result == Table(<<"cumulative_return_final">>, <<"Float64">>, <<<<prod>>>>)
         IN GetColumnFirst(result, "cumulative_return")

\* Expr.dt.strftime: "%Y-%m" and "%Y" of a date cell <<year, month, day>>
Strftime(date, fmt) ==
    IF fmt = "%Y-%m"
    THEN ToString(date[1]) \o "-" \o (IF date[2] < 10 THEN "0" ELSE "") \o ToString(date[2])
    ELSE ToString(date[1])

\* the frame a GroupBy object wraps: the returns with the key column added
GroupByKey(t, fmt) ==
    LET dates == Column(t, "date")
    IN WithColumn(t, "group_by_key", "String",
                  [i \in 1..Len(dates) |-> Strftime(dates[i], fmt)])

\* aggregate_returns whose final branch groups by year instead of raising
AggregateReturnsDefaultYearly(d, convert_to) ==
    LET rets == SimpleReturns(d)
    IN IF convert_to = "monthly" THEN ReturnT(GroupByKey(rets.t, "%Y-%m"))
       ELSE ReturnT(GroupByKey(rets.t, "%Y"))

AggregateReturns(d, convert_to) ==
    LET rets == SimpleReturns(d)
    IN IF rets.err # "none" THEN rets
       ELSE IF convert_to = "monthly" THEN ReturnT(GroupByKey(rets.t, "%Y-%m"))
       ELSE IF convert_to = "yearly" THEN ReturnT(GroupByKey(rets.t, "%Y"))
       ELSE RaiseT("ValueError")

\* Expr.min(): the smallest non-null cell, null when there is none
RECURSIVE MinUpTo(_, _)
MinUpTo(col, i) ==
    IF i = 0 THEN Null
    ELSE LET m == MinUpTo(col, i - 1)
         IN IF IsNull(col[i]) THEN m
            ELSE IF IsNull(m) THEN col[i]
            ELSE IF Leq(col[i], m) THEN col[i] ELSE m

\* max_drawdown that takes the minimum of the drawdown column
MaxDrawdownMin(simple_returns) ==
    LET cr == CumulativeReturns(simple_returns)
        cum == Column(cr.t, "cumulative_return")
        max_return == CumMax(cum)
        drawdown == [i \in 1..Len(cum) |-> Sub(Div(cum[i], max_return[i]), One)]
    IN ReturnS(MinUpTo(drawdown, Len(drawdown)))

\* max_drawdown with the "- 1" of the drawdown expression dropped
MaxDrawdownRatio(simple_returns) ==
    LET cr == CumulativeReturns(simple_returns)
        cum == Column(cr.t, "cumulative_return")
        max_return == CumMax(cum)
        drawdown == [i \in 1..Len(cum) |-> Div(cum[i], max_return[i])]
    IN ReturnS(ColMax(drawdown))

MaxDrawdown(simple_returns) ==
    LET cr == CumulativeReturns(simple_returns)
    IN IF cr.err # "none" THEN RaiseS(cr.err)
       ELSE LET cum == Column(cr.t, "cumulative_return")
                max_return == CumMax(cum)
                drawdown == [i \in 1..Len(cum) |-> Sub(Div(cum[i], max_return[i]), One)]
            IN ReturnS(ColMax(drawdown))

\* DataFrame.count(): one row holding, per column, the number of non-null cells
Count(t) ==
    Table(t.names,
          [i \in 1..Len(t.names) |-> "UInt32"],
          [i \in 1..Len(t.names) |->
              <<Num(IF t.dtypes[i] = "Float64" THEN NonNullCount(t.series[i])
                    ELSE Len(t.series[i]), 1)>>])

\* DataFrame.item(): the only cell of a frame of shape (1, 1)
Item(t) ==
    IF Len(t.names) = 1 /\ Height(t) = 1 THEN ReturnS(t.series[1][1])
    ELSE RaiseS("ValueError")

\* base ** exponent - 1, kept as the expression: the power is not a rational
PowMinusOne(base, exponent) ==
    [k |-> "powm1", n |-> base.n, d |-> base.d, en |-> exponent.n, ed |-> exponent.d]

CompoundAnnualGrowthRate(simple_returns, p) ==
    LET ann_factor == AnnualizationFactor(p)
    IN IF ann_factor.err # "none" THEN ann_factor
       ELSE LET cnt == Item(Count(simple_returns))
            IN IF cnt.err # "none" THEN cnt
               ELSE LET num_years == Div(cnt.x, ann_factor.x)
                        cr == CumulativeReturns(simple_returns)
                        ending_value == CumulativeReturnFinal(cr.t)
                    IN IF cr.err # "none" THEN RaiseS(cr.err)
                       ELSE IF ending_value.err # "none" THEN ending_value
                       ELSE IF num_years.n = 0 THEN RaiseS("ZeroDivisionError")
                       ELSE IF IsNull(ending_value.x) THEN RaiseS("TypeError")
                       ELSE ReturnS(PowMinusOne(ending_value.x, Div(One, num_years)))

\* a volatility > 0: the square root is not a rational, only its sign is kept
Positive == [k |-> "pos", n |-> 1, d |-> 1]

AllEqual(col) ==
    \A i, j \in 1..Len(col) : (~IsNull(col[i]) /\ ~IsNull(col[j])) => col[i] = col[j]

\* std() has ddof 1: null for fewer than two non-null cells; None * float raises
AnnualVolatility(simple_returns, p) ==
    LET ann_factor == AnnualizationFactor(p)
    IN IF ann_factor.err # "none" THEN ann_factor
       ELSE IF ~HasColumn(simple_returns, "return") THEN RaiseS("ColumnNotFoundError")
       ELSE LET ret == Column(simple_returns, "return")
            IN IF NonNullCount(ret) < 2 THEN RaiseS("TypeError")
               ELSE IF AllEqual(ret) THEN ReturnS(Zero)
               ELSE ReturnS(Positive)

\* numerator / volatility for a volatility > 0, kept as the numerator
Ratio(num) == [k |-> "ratio", n |-> num.n, d |-> num.d]

\* the body the three ratios share: (sum of (col - risk_free_rate) [over the
\* rows with col < risk_free_rate] / ann_factor) / annual_volatility
ExcessRatio(simple_returns, risk_free_rate, p, name, downside) ==
    LET ann_factor == AnnualizationFactor(p)
    IN IF ann_factor.err # "none" THEN ann_factor
       ELSE IF ~HasColumn(simple_returns, name) THEN RaiseS("ColumnNotFoundError")
       ELSE LET col == Column(simple_returns, name)
                excess == Minus(col, risk_free_rate)
                kept == IF downside THEN FilterLt(excess, col, risk_free_rate) ELSE excess
                num == Div(ColSum(kept), ann_factor.x)
                vol == AnnualVolatility(simple_returns, p)
            IN IF vol.err # "none" THEN vol
               ELSE IF vol.x = Zero THEN RaiseS("ZeroDivisionError")
               ELSE ReturnS(Ratio(num))

OmegaRatio(simple_returns, risk_free_rate, p) ==
    ExcessRatio(simple_returns, risk_free_rate, p, "return", TRUE)

\* sharpe_ratio reading the column simple_returns produces
SharpeRatioOfReturn(simple_returns, risk_free_rate, p) ==
    ExcessRatio(simple_returns, risk_free_rate, p, "return", FALSE)

SharpeRatio(simple_returns, risk_free_rate, p) ==
    ExcessRatio(simple_returns, risk_free_rate, p, "simple_return", FALSE)

SortinoRatio(simple_returns, risk_free_rate, p) ==
    ExcessRatio(simple_returns, risk_free_rate, p, "simple_return", TRUE)

\* cagr / abs(max_drawdown), kept as the expression
Quotient(cagr, by) == [k |-> "quot", n |-> by.n, d |-> by.d, en |-> cagr.en, ed |-> cagr.ed]

\* calmar_ratio that answers 0 where the ratio cannot be computed
CalmarRatioOrZero(simple_returns, p) ==
    LET cagr == CompoundAnnualGrowthRate(simple_returns, p)
        max_drawdown == MaxDrawdown(simple_returns)
    IN IF cagr.err # "none" \/ max_drawdown.err # "none" THEN ReturnS(Zero)
       ELSE IF IsNull(max_drawdown.x) \/ max_drawdown.x.n = 0 THEN ReturnS(Zero)
       ELSE ReturnS(Quotient(cagr.x, Num(AbsInt(max_drawdown.x.n), max_drawdown.x.d)))

CalmarRatio(simple_returns, p) ==
    LET cagr == CompoundAnnualGrowthRate(simple_returns, p)
    IN IF cagr.err # "none" THEN cagr
       ELSE LET max_drawdown == MaxDrawdown(simple_returns)
            IN IF max_drawdown.err # "none" THEN max_drawdown
               ELSE IF IsNull(max_drawdown.x) THEN RaiseS("TypeError")
               ELSE IF max_drawdown.x.n = 0 THEN RaiseS("ZeroDivisionError")
               ELSE ReturnS(Quotient(cagr.x, Num(AbsInt(max_drawdown.x.n), max_drawdown.x.d)))

\* ------------------------------------------------------ the price tables
\* the k-th date of the calendar: the 10th and the 25th of each month from 2023-01
DateAt(k) == <<2023 + ((k - 1) \div 24), (((k - 1) \div 2) % 12) + 1, 10 + 15 * ((k - 1) % 2)>>

PriceTable(start, closes) ==
    Table(<<"date", "close">>, <<"Date", "Float64">>,
          << [i \in 1..Len(closes) |-> DateAt(start + i - 1)],
             [i \in 1..Len(closes) |-> Num(closes[i], 1)] >>)

PriceTables ==
    {PriceTable(s, c) : s \in Starts, c \in UNION {[1..n -> Prices] : n \in 0..MaxLen}}

RiskFreeRates == {Zero, Num(1, 100)}

\* ------------------------------------------------------------ actions
Init ==
    /\ data \in PriceTables
    /\ returns = NoTable
    /\ cumulative = NoTable
    /\ groups = NoTable
    /\ op = "none"
    /\ period = "day"
    /\ rf = Zero
    /\ err = "none"
    /\ scalar = NoScalar

\* what a call that returns a scalar (or raises) leaves behind
ScalarCall(name, p, r, res) ==
    /\ op' = name
    /\ period' = p
    /\ rf' = r
    /\ err' = res.err
    /\ scalar' = res.x
    /\ groups' = NoTable
    /\ UNCHANGED <<data, returns, cumulative>>

CallSimpleReturns ==
    LET res == SimpleReturns(data)
    IN /\ op' = "simple_returns"
       /\ err' = res.err
       /\ returns' = IF res.err = "none" THEN res.t ELSE returns
       /\ scalar' = NoScalar
       /\ groups' = NoTable
       /\ UNCHANGED <<data, cumulative, period, rf>>

CallCumulativeReturns ==
    /\ returns # NoTable
    /\ LET res == CumulativeReturns(returns)
       IN /\ op' = "cumulative_returns"
          /\ err' = res.err
          /\ cumulative' = IF res.err = "none" THEN res.t ELSE cumulative
          /\ scalar' = NoScalar
          /\ groups' = NoTable
          /\ UNCHANGED <<data, returns, period, rf>>

CallCumulativeReturnFinal ==
    /\ cumulative # NoTable
    /\ ScalarCall("cumulative_return_final", period, rf, CumulativeReturnFinal(cumulative))

CallAggregateReturns ==
    \E p \in AggregationType :
        LET res == AggregateReturns(data, p)
        IN /\ op' = "aggregate_returns"
           /\ period' = p
           /\ err' = res.err
           /\ groups' = res.t
           /\ scalar' = NoScalar
           /\ UNCHANGED <<data, returns, cumulative, rf>>

CallMaxDrawdown ==
    /\ returns # NoTable
    /\ ScalarCall("max_drawdown", period, rf, MaxDrawdown(returns))

CallCompoundAnnualGrowthRate ==
    /\ returns # NoTable
    /\ \E p \in AggregationType :
          ScalarCall("compound_annual_growth_rate", p, rf, CompoundAnnualGrowthRate(returns, p))

CallAnnualVolatility ==
    /\ returns # NoTable
    /\ \E p \in AggregationType :
          ScalarCall("annual_volatility", p, rf, AnnualVolatility(returns, p))

CallCalmarRatio ==
    /\ returns # NoTable
    /\ \E p \in AggregationType :
          ScalarCall("calmar_ratio", p, rf, CalmarRatio(returns, p))

CallOmegaRatio ==
    /\ returns # NoTable
    /\ \E p \in AggregationType, r \in RiskFreeRates :
          ScalarCall("omega_ratio", p, r, OmegaRatio(returns, r, p))

CallSharpeRatio ==
    /\ returns # NoTable
    /\ \E p \in AggregationType, r \in RiskFreeRates :
          ScalarCall("sharpe_ratio", p, r, SharpeRatio(returns, r, p))

CallSortinoRatio ==
    /\ returns # NoTable
    /\ \E p \in AggregationType, r \in RiskFreeRates :
          ScalarCall("sortino_ratio", p, r, SortinoRatio(returns, r, p))

Next ==
    \/ CallSimpleReturns
    \/ CallCumulativeReturns
    \/ CallCumulativeReturnFinal
    \/ CallAggregateReturns
    \/ CallMaxDrawdown
    \/ CallCompoundAnnualGrowthRate
    \/ CallAnnualVolatility
    \/ CallCalmarRatio
    \/ CallOmegaRatio
    \/ CallSharpeRatio
    \/ CallSortinoRatio

Spec == Init /\ [][Next]_vars

\* ------------------------------------------------------------- claims
\* shorthands for the columns the claims speak of
Rows == Height(data)
Close == Column(data, "close")
Ret == Column(returns, "return")
Cum == Column(cumulative, "cumulative_return")

Defined(col) == {i \in 1..Len(col) : ~IsNull(col[i])}

ClosesAre(seq) == Rows = Len(seq) /\ \A i \in 1..Rows : Close[i] = Num(seq[i], 1)

ConstantPrices == \A i, j \in 1..Rows : Close[i] = Close[j]

StrictlyIncreasing == \A i \in 1..Rows - 1 : Lt(Close[i], Close[i + 1])

\* C1: simple_returns returns as many rows as the price table, with the dates
\* in the same order; the first return is null and every later return r[t]
\* satisfies r[t] * close[t-1] = close[t] - close[t-1].
C1_SimpleReturns ==
    /\ op = "simple_returns" => err = "none" /\ returns # NoTable
    /\ returns # NoTable =>
          /\ Height(returns) = Rows
          /\ Column(returns, "date") = Column(data, "date")
          /\ Rows >= 1 => IsNull(Ret[1])
          /\ \A t \in 2..Rows :
                /\ IsNum(Ret[t])
                /\ Ret[t].n * Close[t - 1].n = Ret[t].d * (Close[t].n - Close[t - 1].n)

C1_Witness ==
    /\ op = "simple_returns" /\ err = "none"
    /\ Rows >= 2
    /\ IsNull(Ret[1])
    /\ Ret[2] # Zero

\* the running product before row i: the last non-null cell before i, else 1
RunningBefore(col, i) ==
    LET before == {j \in Defined(col) : j < i}
    IN IF before = {} THEN One
       ELSE col[CHOOSE j \in before : \A h \in before : h <= j]

\* C2: cumulative_returns returns as many rows as the return table, with the
\* dates and returns in the same order; the cumulative return of a row with a
\* return is the running product so far times (1 + return) and is null for a
\* row without one; for closes 100, 110, 121 rows 2 and 3 hold 11/10, 121/100.
C2_CumulativeReturns ==
    /\ op = "cumulative_returns" => err = "none" /\ cumulative # NoTable
    /\ cumulative # NoTable =>
          /\ Height(cumulative) = Height(returns)
          /\ Column(cumulative, "date") = Column(returns, "date")
          /\ Column(cumulative, "return") = Ret
          /\ \A i \in 1..Height(returns) :
                IF IsNull(Ret[i]) THEN IsNull(Cum[i])
                ELSE Cum[i] = Mul(RunningBefore(Cum, i), Add(One, Ret[i]))
          /\ ClosesAre(<<100, 110, 121>>) =>
                /\ Cum[2] = [k |-> "num", n |-> 11, d |-> 10]
                /\ Cum[3] = [k |-> "num", n |-> 121, d |-> 100]

C2_Witness ==
    /\ op = "cumulative_returns" /\ err = "none"
    /\ ClosesAre(<<100, 110, 121>>)
    /\ IsNull(Cum[1])

\* the drawdown column as the claim defines it, from the cumulative returns
\* of the table max_drawdown was called on
CumOfReturns == Column(CumulativeReturns(returns).t, "cumulative_return")

RunningMax(col, i) ==
    CHOOSE m \in {col[j] : j \in {h \in Defined(col) : h <= i}} :
        \A j \in {h \in Defined(col) : h <= i} : Leq(col[j], m)

DrawdownAt(col, i) == Sub(Div(col[i], RunningMax(col, i)), One)

IsMaxDrawdown(x, col) ==
    /\ IsNum(x)
    /\ \E i \in Defined(col) : x = DrawdownAt(col, i)
    /\ \A i \in Defined(col) : Leq(DrawdownAt(col, i), x)

\* C3 as stated, for the series that have a row: for every return series
\* max_drawdown returns the maximum over the rows of cumulative / running
\* maximum - 1, a scalar <= 0.
C3_Original ==
    (op = "max_drawdown" /\ Rows >= 1) =>
        /\ err = "none"
        /\ IsMaxDrawdown(scalar, CumOfReturns)
        /\ Leq(scalar, Zero)

\* C3 as amended: for every return series with at least one non-null return
\* max_drawdown returns the maximum over the rows of cumulative / running
\* maximum - 1, a scalar <= 0; for a series with no non-null return it
\* returns null.
C3_MaxDrawdown ==
    op = "max_drawdown" =>
        /\ err = "none"
        /\ IF Defined(CumOfReturns) = {} THEN scalar = Null
           ELSE IsMaxDrawdown(scalar, CumOfReturns) /\ Leq(scalar, Zero)

C3_Witness ==
    /\ op = "max_drawdown" /\ err = "none"
    /\ \E i \in Defined(CumOfReturns) : Lt(DrawdownAt(CumOfReturns, i), Zero)
    /\ IsNum(scalar)

\* C4, for the tables of at least two rows: cumulative_return_final returns
\* the product of (1 + cumulative_return) over the rows of the table
\* cumulative_returns produced.
C4_CumulativeReturnFinal ==
    (op = "cumulative_return_final" /\ Rows >= 2) =>
        /\ err = "none"
        /\ scalar = ColProduct(OnePlus(Cum))

\* C5: on the returns of a strictly increasing price series of at least two
\* rows compound_annual_growth_rate returns a value > 0, whatever the period:
\* base ** exponent - 1 with base > 1 and exponent > 0.
C5_GrowthRatePositive ==
    (op = "compound_annual_growth_rate" /\ Rows >= 2 /\ StrictlyIncreasing) =>
        /\ err = "none"
        /\ scalar.k = "powm1"
        /\ scalar.n > scalar.d
        /\ scalar.en > 0

\* C6: aggregate_returns returns a grouping exactly for the periods monthly
\* and yearly; for day, weekly and quarterly it raises and returns none.
C6_AggregateReturns ==
    op = "aggregate_returns" =>
        IF period \in {"monthly", "yearly"}
        THEN /\ err = "none"
             /\ groups # NoTable
             /\ HasColumn(groups, "group_by_key")
             /\ Height(groups) = Rows
        ELSE /\ period \in {"day", "weekly", "quarterly"}
             /\ err = "ValueError"
             /\ groups = NoTable

C6_Witness ==
    /\ op = "aggregate_returns"
    /\ period \in {"weekly", "quarterly"}
    /\ err = "ValueError"
    /\ Rows >= 2

\* C7 as stated, for the series of at least two rows: for constant prices the
\* returns after the first row are 0, the cumulative returns are all 0 and
\* max_drawdown is 0.
C7_Original ==
    (ConstantPrices /\ Rows >= 2) =>
        /\ returns # NoTable => \A i \in 2..Rows : Ret[i] = Zero
        /\ cumulative # NoTable => \A i \in 2..Rows : Cum[i] = Zero
        /\ op = "max_drawdown" => err = "none" /\ scalar = Zero

\* C7 as amended: for constant prices the returns after the first row are 0,
\* the cumulative returns after the first row are 1 (the first is null), and
\* max_drawdown is 0 when the series has at least two rows.
C7_ConstantPrices ==
    ConstantPrices =>
        /\ returns # NoTable => \A i \in 2..Rows : Ret[i] = Zero
        /\ cumulative # NoTable =>
              /\ Rows >= 1 => IsNull(Cum[1])
              /\ \A i \in 2..Rows : Cum[i] = One
        /\ (op = "max_drawdown" /\ Rows >= 2) => err = "none" /\ scalar = Zero

C7_Witness ==
    /\ ConstantPrices
    /\ Rows >= 2
    /\ cumulative # NoTable
    /\ Cum[Rows] = One
    /\ op = "max_drawdown"

\* C8: on a table produced by simple_returns, which has a column return and
\* no column simple_return, sharpe_ratio and sortino_ratio raise for the
\* missing column and return no scalar, whatever the rate and the period.
C8_SharpeSortinoFail ==
    op \in {"sharpe_ratio", "sortino_ratio"} =>
        /\ HasColumn(returns, "return")
        /\ ~HasColumn(returns, "simple_return")
        /\ err = "ColumnNotFoundError"
        /\ scalar = NoScalar

C8_Witness ==
    /\ op = "sharpe_ratio"
    /\ period = "weekly"
    /\ rf # Zero
    /\ Rows >= 3
    /\ err = "ColumnNotFoundError"

\* C9: on a return series whose max_drawdown is 0, calmar_ratio ends in an
\* error and returns no scalar.
C9_CalmarFails ==
    (op = "calmar_ratio" /\ MaxDrawdown(returns).x = Zero) =>
        /\ err # "none"
        /\ scalar = NoScalar

C9_Witness ==
    /\ op = "calmar_ratio"
    /\ MaxDrawdown(returns).x = Zero
    /\ err # "none"

\* C10: on the returns of a price series of at least two rows max_drawdown
\* returns exactly 0, however the prices move.
C10_MaxDrawdownIsZero ==
    (op = "max_drawdown" /\ Rows >= 2) => err = "none" /\ scalar = Zero

C10_Witness ==
    /\ op = "max_drawdown"
    /\ Rows >= 3
    /\ Lt(Close[3], Close[2])
    /\ scalar = Zero
====
